---------------------------- MODULE Spec2Model ----------------------------
(***************************************************************************)
(* A model of generate_cover_letter.py: the prompt rendering               *)
(* (str.format on master_prompt.txt), the tag-delimited extraction         *)
(* (extract_text), the validation of the four sections in                  *)
(* generate_custom_content, and the control flow of main.                  *)
(*                                                                         *)
(* A Python str is a sequence of one-character strings.  Python indices    *)
(* are kept 0-based: index(s, sub) is the 0-based position of the first    *)
(* occurrence, and Slice(s, a, b) is s[a:b].                               *)
(***************************************************************************)
EXTENDS Integers, Sequences, FiniteSets

VARIABLES
    pc,                \* position of the run inside main / generate_custom_content
    setup,             \* args.setup
    files,             \* the required files that exist when main checks them
    resume,            \* main's local resume (text of resume.txt)
    job_description,   \* main's local job_description
    prompt_template,   \* text of master_prompt.txt
    prompt,            \* result of prompt_template.format(...)
    render_error,      \* exception raised by str.format, "" when none
    ai_response_text,  \* response.text
    backend_error,     \* TRUE when the API call raised
    content,           \* the dict of the four extracted sections
    missing_sections,  \* the keys whose value is falsy
    custom_content,    \* what generate_custom_content returned to main
    api_calls,         \* number of model.generate_content calls
    fill_calls,        \* number of fill_pdf_template calls
    output_written,    \* TRUE once fill_pdf_template has written Cover_Letter_*.pdf
    setup_calls        \* number of setup_cover_letter_template calls

vars == <<pc, setup, files, resume, job_description, prompt_template, prompt,
          render_error, ai_response_text, backend_error, content,
          missing_sections, custom_content, api_calls, fill_calls,
          output_written, setup_calls>>

-----------------------------------------------------------------------------
(* Python values: a str, or None *)

None == [isNone |-> TRUE, text |-> <<>>]

Str(s) == [isNone |-> FALSE, text |-> s]

\* Python truthiness of a str-or-None value: None and "" are falsy.
Falsy(v) == v.isNone \/ v.text = <<>>

-----------------------------------------------------------------------------
(* str primitives *)

\* sub occurs in s at 0-based position i
OccursAt(s, sub, i) ==
    /\ i >= 0
    /\ i + Len(sub) <= Len(s)
    /\ \A k \in 1..Len(sub) : s[i + k] = sub[k]

\* str.index: the 0-based position of the first occurrence of sub in s;
\* -1 stands for the ValueError that str.index raises when there is none.
index(s, sub) ==
    LET hits == {i \in 0..(Len(s) - Len(sub)) : OccursAt(s, sub, i)}
    IN  IF hits = {} THEN -1
        ELSE CHOOSE i \in hits : \A j \in hits : i <= j

\* s[a:b] for 0 <= a, b <= len(s): empty when b <= a
Slice(s, a, b) == IF b <= a THEN <<>> ELSE SubSeq(s, a + 1, b)

\* what str.strip() removes
Whitespace == {" ", "\n", "\t"}

RECURSIVE lstrip(_)
lstrip(s) ==
    IF s # <<>> /\ Head(s) \in Whitespace THEN lstrip(Tail(s)) ELSE s

RECURSIVE rstrip(_)
rstrip(s) ==
    IF s # <<>> /\ s[Len(s)] \in Whitespace
    THEN rstrip(SubSeq(s, 1, Len(s) - 1))
    ELSE s

strip(s) == rstrip(lstrip(s))

RECURSIVE Flatten(_)
Flatten(ss) == IF ss = <<>> THEN <<>> ELSE Head(ss) \o Flatten(Tail(ss))

-----------------------------------------------------------------------------
(* extract_text *)

\* extract_text with the start index left at the beginning of the start tag
extract_text_from_tag(full_text, start_tag, end_tag) ==
    LET s == index(full_text, start_tag)
        e == index(full_text, end_tag)
    IN  IF s = -1 \/ e = -1
        THEN None
        ELSE Str(strip(Slice(full_text, s, e)))

\* extract_text reading up to the end of the text when the end tag is absent
extract_text_open_end(full_text, start_tag, end_tag) ==
    LET s == index(full_text, start_tag)
        e == index(full_text, end_tag)
    IN  IF s = -1
        THEN None
        ELSE Str(strip(Slice(full_text, s + Len(start_tag),
                             IF e = -1 THEN Len(full_text) ELSE e)))

\* extract_text looking for the end tag only after the start tag
\* (full_text.index(end_tag, start_index))
extract_text_end_after_start(full_text, start_tag, end_tag) ==
    LET s == index(full_text, start_tag)
        from == s + Len(start_tag)
        rest == Slice(full_text, from, Len(full_text))
        e == index(rest, end_tag)
    IN  IF s = -1 \/ e = -1
        THEN None
        ELSE Str(strip(Slice(full_text, from, from + e)))

extract_text(full_text, start_tag, end_tag) ==
    LET s == index(full_text, start_tag)
        e == index(full_text, end_tag)
    IN  IF s = -1 \/ e = -1
        THEN None
        ELSE Str(strip(Slice(full_text, s + Len(start_tag), e)))

-----------------------------------------------------------------------------
(* the four sections of generate_custom_content *)

HOOK_INSIGHT_START == <<"[","H","O","O","K","_","I","N","S","I","G","H","T","_","S","T","A","R","T","]">>
HOOK_INSIGHT_END == <<"[","H","O","O","K","_","I","N","S","I","G","H","T","_","E","N","D","]">>
SKILL_ALIGNMENT_START == <<"[","S","K","I","L","L","_","A","L","I","G","N","M","E","N","T","_","S","T","A","R","T","]">>
SKILL_ALIGNMENT_END == <<"[","S","K","I","L","L","_","A","L","I","G","N","M","E","N","T","_","E","N","D","]">>
QUANTIFIABLE_ACHIEVEMENT_START == <<"[","Q","U","A","N","T","I","F","I","A","B","L","E","_","A","C","H","I","E","V","E","M","E","N","T","_","S","T","A","R","T","]">>
QUANTIFIABLE_ACHIEVEMENT_END == <<"[","Q","U","A","N","T","I","F","I","A","B","L","E","_","A","C","H","I","E","V","E","M","E","N","T","_","E","N","D","]">>
CULTURE_FIT_START == <<"[","C","U","L","T","U","R","E","_","F","I","T","_","S","T","A","R","T","]">>
CULTURE_FIT_END == <<"[","C","U","L","T","U","R","E","_","F","I","T","_","E","N","D","]">>

Sections == {"ai_hook_insight", "ai_skill_alignment_paragraph",
             "ai_quantifiable_achievement_paragraph", "ai_culture_fit_paragraph"}

StartTag(k) ==
    CASE k = "ai_hook_insight" -> HOOK_INSIGHT_START
      [] k = "ai_skill_alignment_paragraph" -> SKILL_ALIGNMENT_START
      [] k = "ai_quantifiable_achievement_paragraph" -> QUANTIFIABLE_ACHIEVEMENT_START
      [] k = "ai_culture_fit_paragraph" -> CULTURE_FIT_START

EndTag(k) ==
    CASE k = "ai_hook_insight" -> HOOK_INSIGHT_END
      [] k = "ai_skill_alignment_paragraph" -> SKILL_ALIGNMENT_END
      [] k = "ai_quantifiable_achievement_paragraph" -> QUANTIFIABLE_ACHIEVEMENT_END
      [] k = "ai_culture_fit_paragraph" -> CULTURE_FIT_END

\* the dict built at lines 37-42
ExtractContent(text) ==
    [k \in Sections |-> extract_text(text, StartTag(k), EndTag(k))]

\* the validation written as "if value is None"
MissingSectionsNoneOnly(c) == {k \in Sections : c[k].isNone}

\* missing_sections = [key for key, value in content.items() if not value]
MissingSections(c) == {k \in Sections : Falsy(c[k])}

\* content before the extraction has run
NoContent == [k \in Sections |-> None]

-----------------------------------------------------------------------------
(* prompt_template.format(resume_text=..., job_desc_text=...)               *)
(*                                                                         *)
(* str.format scans the template left to right: "{{" and "}}" are literal  *)
(* braces, "{name}" is a replacement field looked up among the keyword     *)
(* arguments, and the first error met ends the call.  Conversions ("!r"),  *)
(* format specs (":...") and attribute or index lookups are outside the    *)
(* templates modelled here, which are built of braces, the two field names *)
(* and plain letters.                                                      *)

RESUME_TEXT == <<"r","e","s","u","m","e","_","t","e","x","t">>
JOB_DESC_TEXT == <<"j","o","b","_","d","e","s","c","_","t","e","x","t">>

\* the placeholders as they are written in a template
RESUME_PLACEHOLDER == <<"{">> \o RESUME_TEXT \o <<"}">>
JOB_PLACEHOLDER == <<"{">> \o JOB_DESC_TEXT \o <<"}">>

Rendered(s) == [error |-> "", out |-> s]

Raised(e) == [error |-> e, out |-> <<>>]

\* literal text (or a substituted value) followed by the rendering of the rest
Emit(s, rest) == IF rest.error # "" THEN rest ELSE Rendered(s \o rest.out)

\* 1-based position of the first "}" at or after position i, 0 when none
RECURSIVE CloseFrom(_, _)
CloseFrom(t, i) ==
    IF i > Len(t) THEN 0
    ELSE IF t[i] = "}" THEN i
    ELSE CloseFrom(t, i + 1)

\* a lookup that cuts the value to its first character
FieldValueTruncated(name, resume_text, job_desc_text) ==
    IF name = RESUME_TEXT
    THEN Rendered(IF resume_text = <<>> THEN <<>> ELSE <<resume_text[1]>>)
    ELSE IF name = JOB_DESC_TEXT
    THEN Rendered(IF job_desc_text = <<>> THEN <<>> ELSE <<job_desc_text[1]>>)
    ELSE IF name = <<>> THEN Raised("IndexError")
    ELSE Raised("KeyError")

\* the value a replacement field stands for: get_field_object
\* (an empty name is auto-numbered positional argument 0, and format is
\* called with keyword arguments only)
FieldValue(name, resume_text, job_desc_text) ==
    IF name = RESUME_TEXT THEN Rendered(resume_text)
    ELSE IF name = JOB_DESC_TEXT THEN Rendered(job_desc_text)
    ELSE IF name = <<>> THEN Raised("IndexError")
    ELSE Raised("KeyError")

RECURSIVE FormatFrom(_, _, _, _)
FormatFrom(t, i, resume_text, job_desc_text) ==
    IF i > Len(t) THEN Rendered(<<>>)
    ELSE IF t[i] = "{" THEN
        IF i < Len(t) /\ t[i + 1] = "{"
        THEN Emit(<<"{">>, FormatFrom(t, i + 2, resume_text, job_desc_text))
        ELSE LET close == CloseFrom(t, i + 1)
                 name == SubSeq(t, i + 1, close - 1)
             IN  IF close = 0 THEN Raised("ValueError")
                 ELSE IF \E k \in 1..Len(name) : name[k] = "{"
                 THEN Raised("ValueError")
                 ELSE LET v == FieldValue(name, resume_text, job_desc_text)
                      IN  IF v.error # "" THEN v
                          ELSE Emit(v.out, FormatFrom(t, close + 1,
                                                      resume_text, job_desc_text))
    ELSE IF t[i] = "}" THEN
        IF i < Len(t) /\ t[i + 1] = "}"
        THEN Emit(<<"}">>, FormatFrom(t, i + 2, resume_text, job_desc_text))
        ELSE Raised("ValueError")
    ELSE Emit(<<t[i]>>, FormatFrom(t, i + 1, resume_text, job_desc_text))

\* str.format(resume_text=resume_text, job_desc_text=job_desc_text)
format(t, resume_text, job_desc_text) == FormatFrom(t, 1, resume_text, job_desc_text)

-----------------------------------------------------------------------------
(* inputs *)

\* required_files, line 211
RequiredFiles == {"resume.txt", "job_description.txt", "master_prompt.txt",
                  "fillable_template.pdf"}

\* what read_file_content(filepath) can do when the file holds one of texts:
\* return the text, or (None here) print an error and exit(1)
read_file_content(texts) == {Str(x) : x \in texts} \cup {None}

\* contents of resume.txt and job_description.txt in the runs of main
ResumeTexts == {<<"R">>, <<"R", "{">>, RESUME_PLACEHOLDER}
JobTexts == {<<"J">>, <<>>, <<"}">> \o JOB_PLACEHOLDER}

\* contents of master_prompt.txt in the runs of main: both placeholders,
\* one placeholder, none, an unknown field, an unbalanced brace
MainTemplates ==
    { <<"x">> \o RESUME_PLACEHOLDER \o <<" ">> \o JOB_PLACEHOLDER,
      RESUME_PLACEHOLDER,
      <<"x">>,
      RESUME_PLACEHOLDER \o JOB_PLACEHOLDER \o <<"{", "x", "}">>,
      JOB_PLACEHOLDER \o <<"{">> }

\* how one section can appear in a response of the backend in the runs of
\* main: well formed, nothing but whitespace between the tags, end tag
\* missing, end tag before the start tag, absent altogether
SectionShapes(k) ==
    { StartTag(k) \o <<" ", "a", "\n">> \o EndTag(k),
      StartTag(k) \o <<" ">> \o EndTag(k),
      StartTag(k) \o <<"a">>,
      EndTag(k) \o <<"a">> \o StartTag(k) }

Responses ==
    { a \o <<"\n">> \o b \o c \o d :
        a \in SectionShapes("ai_hook_insight"),
        b \in SectionShapes("ai_skill_alignment_paragraph"),
        c \in SectionShapes("ai_quantifiable_achievement_paragraph"),
        d \in SectionShapes("ai_culture_fit_paragraph") }

-----------------------------------------------------------------------------
(* return values of generate_custom_content *)

ReturnNone == [isNone |-> TRUE, value |-> NoContent]

Return(c) == [isNone |-> FALSE, value |-> c]

-----------------------------------------------------------------------------
(* main *)

Init ==
    /\ pc = "main"
    /\ setup \in BOOLEAN
    /\ files \in SUBSET RequiredFiles
    /\ resume = <<>>
    /\ job_description = <<>>
    /\ prompt_template = <<>>
    /\ prompt = None
    /\ render_error = ""
    /\ ai_response_text = None
    /\ backend_error = FALSE
    /\ content = NoContent
    /\ missing_sections = {}
    /\ custom_content = ReturnNone
    /\ api_calls = 0
    /\ fill_calls = 0
    /\ output_written = FALSE
    /\ setup_calls = 0

\* lines 204-208: setup mode
MainSetup ==
    /\ pc = "main"
    /\ setup
    /\ setup_calls' = setup_calls + 1
    /\ pc' = "done"
    /\ UNCHANGED <<setup, files, resume, job_description, prompt_template,
                   prompt, render_error, ai_response_text, backend_error,
                   content, missing_sections, custom_content, api_calls,
                   fill_calls, output_written>>

\* the file check looking at the PDF template only
MainCheckFilesTemplateOnly ==
    /\ pc = "main"
    /\ ~setup
    /\ pc' = IF "fillable_template.pdf" \notin files THEN "done" ELSE "read_resume"
    /\ UNCHANGED <<setup, files, resume, job_description, prompt_template,
                   prompt, render_error, ai_response_text, backend_error,
                   content, missing_sections, custom_content, api_calls,
                   fill_calls, output_written, setup_calls>>

\* lines 210-218: validate required files
MainCheckFiles ==
    /\ pc = "main"
    /\ ~setup
    /\ pc' = IF RequiredFiles \ files # {} THEN "done" ELSE "read_resume"
    /\ UNCHANGED <<setup, files, resume, job_description, prompt_template,
                   prompt, render_error, ai_response_text, backend_error,
                   content, missing_sections, custom_content, api_calls,
                   fill_calls, output_written, setup_calls>>

\* line 224
MainReadResume ==
    /\ pc = "read_resume"
    /\ \E c \in read_file_content(ResumeTexts) :
        /\ resume' = c.text
        /\ pc' = IF c.isNone THEN "exit" ELSE "read_job"
    /\ UNCHANGED <<setup, files, job_description, prompt_template,
                   prompt, render_error, ai_response_text, backend_error,
                   content, missing_sections, custom_content, api_calls,
                   fill_calls, output_written, setup_calls>>

\* line 225
MainReadJob ==
    /\ pc = "read_job"
    /\ \E c \in read_file_content(JobTexts) :
        /\ job_description' = c.text
        /\ pc' = IF c.isNone THEN "exit" ELSE "gen_read_prompt"
    /\ UNCHANGED <<setup, files, resume, prompt_template,
                   prompt, render_error, ai_response_text, backend_error,
                   content, missing_sections, custom_content, api_calls,
                   fill_calls, output_written, setup_calls>>

\* line 28, in generate_custom_content
GenReadPrompt ==
    /\ pc = "gen_read_prompt"
    /\ \E c \in read_file_content(MainTemplates) :
        /\ prompt_template' = c.text
        /\ pc' = IF c.isNone THEN "exit" ELSE "gen_format"
    /\ UNCHANGED <<setup, files, resume, job_description,
                   prompt, render_error, ai_response_text, backend_error,
                   content, missing_sections, custom_content, api_calls,
                   fill_calls, output_written, setup_calls>>

\* line 29: outside the try, so an exception of str.format leaves main
GenFormat ==
    /\ pc = "gen_format"
    /\ LET f == format(prompt_template, resume, job_description)
       IN  /\ render_error' = f.error
           /\ prompt' = IF f.error # "" THEN None ELSE Str(f.out)
           /\ pc' = IF f.error # "" THEN "crashed" ELSE "gen_call"
    /\ UNCHANGED <<setup, files, resume, job_description, prompt_template,
                   ai_response_text, backend_error,
                   content, missing_sections, custom_content, api_calls,
                   fill_calls, output_written, setup_calls>>

\* line 33: model.generate_content(prompt) is invoked
GenCall ==
    /\ pc = "gen_call"
    /\ api_calls' = api_calls + 1
    /\ pc' = "gen_wait"
    /\ UNCHANGED <<setup, files, resume, job_description, prompt_template,
                   prompt, render_error, ai_response_text, backend_error,
                   content, missing_sections, custom_content,
                   fill_calls, output_written, setup_calls>>

\* lines 33-34: the call returns a response with a text, or raises
GenResponse ==
    /\ pc = "gen_wait"
    /\ \E r \in {Str(x) : x \in Responses} \cup {None} :
        /\ ai_response_text' = r
        /\ backend_error' = r.isNone
        /\ pc' = IF r.isNone THEN "gen_except" ELSE "gen_extract"
    /\ UNCHANGED <<setup, files, resume, job_description, prompt_template,
                   prompt, render_error,
                   content, missing_sections, custom_content, api_calls,
                   fill_calls, output_written, setup_calls>>

\* lines 36-42
GenExtract ==
    /\ pc = "gen_extract"
    /\ content' = ExtractContent(ai_response_text.text)
    /\ pc' = "gen_validate"
    /\ UNCHANGED <<setup, files, resume, job_description, prompt_template,
                   prompt, render_error, ai_response_text, backend_error,
                   missing_sections, custom_content, api_calls,
                   fill_calls, output_written, setup_calls>>

\* the validation reporting the missing sections but returning content anyway
GenValidateNoReturn ==
    /\ pc = "gen_validate"
    /\ missing_sections' = MissingSections(content)
    /\ custom_content' = Return(content)
    /\ pc' = "main_check"
    /\ UNCHANGED <<setup, files, resume, job_description, prompt_template,
                   prompt, render_error, ai_response_text, backend_error,
                   content, api_calls,
                   fill_calls, output_written, setup_calls>>

\* lines 44-56
GenValidate ==
    /\ pc = "gen_validate"
    /\ missing_sections' = MissingSections(content)
    /\ custom_content' = IF MissingSections(content) # {}
                         THEN ReturnNone
                         ELSE Return(content)
    /\ pc' = "main_check"
    /\ UNCHANGED <<setup, files, resume, job_description, prompt_template,
                   prompt, render_error, ai_response_text, backend_error,
                   content, api_calls,
                   fill_calls, output_written, setup_calls>>

\* the handler printing the error and falling through to "return content"
GenExceptReturnsContent ==
    /\ pc = "gen_except"
    /\ custom_content' = Return(content)
    /\ pc' = "main_check"
    /\ UNCHANGED <<setup, files, resume, job_description, prompt_template,
                   prompt, render_error, ai_response_text, backend_error,
                   content, missing_sections, api_calls,
                   fill_calls, output_written, setup_calls>>

\* lines 58-60
GenExcept ==
    /\ pc = "gen_except"
    /\ custom_content' = ReturnNone
    /\ pc' = "main_check"
    /\ UNCHANGED <<setup, files, resume, job_description, prompt_template,
                   prompt, render_error, ai_response_text, backend_error,
                   content, missing_sections, api_calls,
                   fill_calls, output_written, setup_calls>>

\* main calling generate_custom_content again when it got no content
MainCheckContentRetry ==
    /\ pc = "main_check"
    /\ pc' = IF custom_content.isNone THEN "gen_read_prompt" ELSE "fill"
    /\ UNCHANGED <<setup, files, resume, job_description, prompt_template,
                   prompt, render_error, ai_response_text, backend_error,
                   content, missing_sections, custom_content, api_calls,
                   fill_calls, output_written, setup_calls>>

\* lines 230-232: a dict of four keys is truthy, None is not
MainCheckContent ==
    /\ pc = "main_check"
    /\ pc' = IF custom_content.isNone THEN "done" ELSE "fill"
    /\ UNCHANGED <<setup, files, resume, job_description, prompt_template,
                   prompt, render_error, ai_response_text, backend_error,
                   content, missing_sections, custom_content, api_calls,
                   fill_calls, output_written, setup_calls>>

\* lines 234-245: fill_pdf_template writes the output file and returns True,
\* or catches an exception of the PDF library and returns False
MainFill ==
    /\ pc = "fill"
    /\ fill_calls' = fill_calls + 1
    /\ output_written' \in BOOLEAN
    /\ pc' = "done"
    /\ UNCHANGED <<setup, files, resume, job_description, prompt_template,
                   prompt, render_error, ai_response_text, backend_error,
                   content, missing_sections, custom_content, api_calls,
                   setup_calls>>

Next ==
    \/ MainSetup
    \/ MainCheckFiles
    \/ MainReadResume
    \/ MainReadJob
    \/ GenReadPrompt
    \/ GenFormat
    \/ GenCall
    \/ GenResponse
    \/ GenExtract
    \/ GenValidate
    \/ GenExcept
    \/ MainCheckContent
    \/ MainFill

Spec == Init /\ [][Next]_vars

-----------------------------------------------------------------------------
(* The extraction on every text of at most MaxPieces pieces, a piece being *)
(* a tag of the first or of the last section or a character, and on every  *)
(* text of at most MaxPieces - 1 pieces, a piece being any of the eight    *)
(* tags or a character: the run stands where the backend has just          *)
(* returned.                                                               *)

MaxPieces == 4

Fillers == {<<" ">>, <<"\n">>, <<"a">>}

TagsOf(S) == {StartTag(k) : k \in S} \cup {EndTag(k) : k \in S}

\* the sequences of at most n pieces of P
PieceSeqs(P, n) == UNION {[1..m -> P] : m \in 0..n}

Texts ==
    {Flatten(ps) :
        ps \in PieceSeqs(TagsOf({"ai_hook_insight", "ai_culture_fit_paragraph"})
                            \cup Fillers, MaxPieces)
               \cup PieceSeqs(TagsOf(Sections) \cup Fillers, MaxPieces - 1)}

InitExtract ==
    /\ pc = "gen_extract"
    /\ setup = FALSE
    /\ files = RequiredFiles
    /\ resume = <<"R">>
    /\ job_description = <<"J">>
    /\ prompt_template = RESUME_PLACEHOLDER \o JOB_PLACEHOLDER
    /\ prompt = Str(<<"R", "J">>)
    /\ render_error = ""
    /\ ai_response_text \in {Str(x) : x \in Texts}
    /\ backend_error = FALSE
    /\ content = NoContent
    /\ missing_sections = {}
    /\ custom_content = ReturnNone
    /\ api_calls = 1
    /\ fill_calls = 0
    /\ output_written = FALSE
    /\ setup_calls = 0

NextExtract == GenExtract \/ GenValidate

SpecExtract == InitExtract /\ [][NextExtract]_vars

-----------------------------------------------------------------------------
(* The rendering on every template of at most MaxTemplatePieces pieces, a  *)
(* piece being a placeholder, a brace or a letter: the run stands where    *)
(* the three files have just been read.                                    *)

MaxTemplatePieces == 4

TemplatePieces ==
    {RESUME_PLACEHOLDER, JOB_PLACEHOLDER, <<"{">>, <<"}">>, <<"x">>}

Templates == {Flatten(ps) : ps \in PieceSeqs(TemplatePieces, MaxTemplatePieces)}

InitRender ==
    /\ pc = "gen_format"
    /\ setup = FALSE
    /\ files = RequiredFiles
    /\ resume \in ResumeTexts
    /\ job_description \in JobTexts
    /\ prompt_template \in Templates
    /\ prompt = None
    /\ render_error = ""
    /\ ai_response_text = None
    /\ backend_error = FALSE
    /\ content = NoContent
    /\ missing_sections = {}
    /\ custom_content = ReturnNone
    /\ api_calls = 0
    /\ fill_calls = 0
    /\ output_written = FALSE
    /\ setup_calls = 0

NextRender == GenFormat \/ GenCall

SpecRender == InitRender /\ [][NextRender]_vars

-----------------------------------------------------------------------------
(* Properties of the extraction.  The predicates below describe positions  *)
(* and substrings directly on the text, from OccursAt alone.               *)

RawText == ai_response_text.text

Extracted == pc \in {"gen_validate", "main_check", "fill", "done"} /\ ~backend_error

Validated == pc \in {"main_check", "fill", "done"} /\ ~backend_error

\* tag occurs somewhere in text
Present(text, tag) == \E i \in 0..Len(text) : OccursAt(text, tag, i)

\* i is the 0-based position of the first occurrence of tag in text
FirstAt(text, tag, i) ==
    /\ OccursAt(text, tag, i)
    /\ \A j \in 0..(i - 1) : ~OccursAt(text, tag, j)

\* the characters of text from 0-based position a up to, not including, b
Between(text, a, b) == [i \in 1..(IF b > a THEN b - a ELSE 0) |-> text[a + i]]

\* r is mid without its leading and trailing whitespace
IsTrimOf(r, mid) ==
    /\ Len(r) <= Len(mid)
    /\ r # <<>> => r[1] \notin Whitespace /\ r[Len(r)] \notin Whitespace
    /\ \E a \in 0..(Len(mid) - Len(r)) :
        /\ \A i \in 1..a : mid[i] \in Whitespace
        /\ \A i \in 1..Len(r) : mid[a + i] = r[i]
        /\ \A i \in (a + Len(r) + 1)..Len(mid) : mid[i] \in Whitespace

\* some start tag of section k is followed, later in the text, by an end tag
StartThenEnd(text, k) ==
    \E i \in 0..Len(text) :
        /\ OccursAt(text, StartTag(k), i)
        /\ \E j \in (i + Len(StartTag(k)))..Len(text) : OccursAt(text, EndTag(k), j)

\* the text between the first start tag of k and the first end tag after it
AfterStart(text, k) ==
    LET i == CHOOSE x \in 0..Len(text) : FirstAt(text, StartTag(k), x)
        j == CHOOSE y \in (i + Len(StartTag(k)))..Len(text) :
                /\ OccursAt(text, EndTag(k), y)
                /\ \A z \in (i + Len(StartTag(k)))..(y - 1) :
                       ~OccursAt(text, EndTag(k), z)
    IN  Between(text, i + Len(StartTag(k)), j)

\* C1 as stated: whenever the text holds a start tag of a section followed
\* later by its end tag, the section's value is the text between them,
\* trimmed.
C1_StartThenEndExtracted ==
    Extracted =>
        \A k \in Sections :
            StartThenEnd(RawText, k)
            => /\ ~content[k].isNone
               /\ IsTrimOf(content[k].text, AfterStart(RawText, k))

\* C1, amended: when the FIRST occurrence of the end tag in the whole text
\* lies at or after the end of the first start tag, the section's value is
\* the text between the end of that start tag and the beginning of that end
\* tag, without its leading and trailing whitespace.
C1_ExtractedBetweenFirstTags ==
    Extracted =>
        \A k \in Sections :
            \A s \in 0..Len(RawText) :
                FirstAt(RawText, StartTag(k), s) =>
                    \A e \in (s + Len(StartTag(k)))..Len(RawText) :
                        FirstAt(RawText, EndTag(k), e) =>
                            /\ ~content[k].isNone
                            /\ IsTrimOf(content[k].text,
                                        Between(RawText, s + Len(StartTag(k)), e))

\* C1's case: a section with whitespace around its text has been extracted
C1_Witness ==
    /\ pc = "gen_validate"
    /\ \E k \in Sections :
        /\ Present(RawText, StartTag(k) \o <<" ", "a">> \o EndTag(k))
        /\ content[k] = Str(<<"a">>)

\* C2: a section whose start tag or end tag does not occur in the text has
\* the value None and is in missing_sections, and every other section whose
\* two tags occur still has a value.
C2_MissingTagGivesNone ==
    Extracted =>
        \A k \in Sections :
            (~Present(RawText, StartTag(k)) \/ ~Present(RawText, EndTag(k)))
            => /\ content[k].isNone
               /\ Validated => k \in missing_sections
               /\ \A o \in Sections \ {k} :
                      (Present(RawText, StartTag(o)) /\ Present(RawText, EndTag(o)))
                      => ~content[o].isNone

\* C2's case: one section lacks its end tag, another is extracted
C2_Witness ==
    /\ pc = "main_check"
    /\ \E k \in Sections, o \in Sections :
        /\ Present(RawText, StartTag(k))
        /\ ~Present(RawText, EndTag(k))
        /\ k \in missing_sections
        /\ content[o] = Str(<<"a">>)
        /\ o \notin missing_sections

\* C8 as stated: a section is in missing_sections if and only if its start
\* tag or its end tag was not found, that is, if and only if its value is
\* None.
C8_MissingIffTagNotFound ==
    Validated =>
        \A k \in Sections :
            /\ k \in missing_sections <=> content[k].isNone
            /\ k \in missing_sections <=>
                  (~Present(RawText, StartTag(k)) \/ ~Present(RawText, EndTag(k)))

\* C8, amended: a section is in missing_sections if and only if its start
\* tag or its end tag was not found, or nothing but whitespace lies between
\* the end of the first start tag and the first end tag (which is so when
\* that end tag comes before).
C8_MissingIffNoneOrEmpty ==
    Validated =>
        \A k \in Sections :
            k \in missing_sections <=>
                \/ ~Present(RawText, StartTag(k))
                \/ ~Present(RawText, EndTag(k))
                \/ \A s \in 0..Len(RawText) :
                       FirstAt(RawText, StartTag(k), s) =>
                           \A e \in 0..Len(RawText) :
                               FirstAt(RawText, EndTag(k), e) =>
                                   \A i \in (s + Len(StartTag(k)) + 1)..e :
                                       RawText[i] \in Whitespace

\* C8's case: both tags found, an empty value, and the section reported
C8_Witness ==
    /\ pc = "main_check"
    /\ \E k \in Sections :
        /\ Present(RawText, StartTag(k) \o <<" ">> \o EndTag(k))
        /\ content[k] = Str(<<>>)
        /\ k \in missing_sections

\* C9: the end tag is taken at its first occurrence in the whole text; when
\* both tags occur and that position is before the end of the first start
\* tag, the value is the empty string, not None.
C9_EndBeforeStartGivesEmpty ==
    Extracted =>
        \A k \in Sections :
            \A s \in 0..Len(RawText) :
                FirstAt(RawText, StartTag(k), s) =>
                    \A e \in 0..(s + Len(StartTag(k)) - 1) :
                        FirstAt(RawText, EndTag(k), e) =>
                            content[k] = Str(<<>>)

\* C9's case: an end tag before the start tag and another one after it
C9_Witness ==
    /\ pc = "gen_validate"
    /\ \E k \in Sections :
        /\ Present(RawText, EndTag(k) \o StartTag(k) \o <<"a">> \o EndTag(k))
        /\ content[k] = Str(<<>>)

-----------------------------------------------------------------------------
(* Properties of the rendering *)

HasBothPlaceholders(t) ==
    Present(t, RESUME_PLACEHOLDER) /\ Present(t, JOB_PLACEHOLDER)

FormatDone == pc # "gen_format"

\* str.format accepts t
WellFormed(t) == format(t, <<>>, <<>>).error = ""

\* t rendered with the values of the run
RenderedText(t) == format(t, resume, job_description).out

\* the output is: what precedes the field, rendered; the value; what
\* follows the field, rendered
ValueAtField(t, placeholder, value, out) ==
    \A p \in 0..Len(t) :
        (/\ OccursAt(t, placeholder, p)
         /\ WellFormed(Between(t, 0, p))
         /\ WellFormed(Between(t, p + Len(placeholder), Len(t))))
        => out = RenderedText(Between(t, 0, p)) \o value
                   \o RenderedText(Between(t, p + Len(placeholder), Len(t)))

HasBrace(s) == \E i \in 1..Len(s) : s[i] \in {"{", "}"}

\* t holds an escaped brace, "{{" or "}}"
HasDoubledBrace(t) == Present(t, <<"{", "{">>) \/ Present(t, <<"}", "}">>)

\* C4 as stated: for every template holding both placeholders and every
\* pair of values, the rendered prompt holds each value verbatim and no
\* placeholder marker remains in it.  (The value's position is left out
\* here: the statement fails already without it.)
C4_ValuesVerbatimNoMarkerLeft ==
    (FormatDone /\ HasBothPlaceholders(prompt_template) /\ render_error = "")
    => /\ Present(prompt.text, resume)
       /\ Present(prompt.text, job_description)
       /\ ~Present(prompt.text, RESUME_PLACEHOLDER)
       /\ ~Present(prompt.text, JOB_PLACEHOLDER)

\* C4, amended: for every template that str.format accepts, each value
\* stands verbatim where its replacement field stood: the output is the
\* rendering of the template text before the field, then the value, then
\* the rendering of the text after it; and the output holds a brace only
\* if a value holds one or the template holds an escaped brace.
C4_ValuesVerbatimAtFields ==
    (FormatDone /\ render_error = "")
    => /\ ~prompt.isNone
       /\ ValueAtField(prompt_template, RESUME_PLACEHOLDER, resume, prompt.text)
       /\ ValueAtField(prompt_template, JOB_PLACEHOLDER, job_description, prompt.text)
       /\ (~HasBrace(resume) /\ ~HasBrace(job_description)
              /\ ~HasDoubledBrace(prompt_template))
          => ~HasBrace(prompt.text)

\* C4's case: a template with both placeholders and literal text has been
\* rendered with a value that holds a brace
C4_Witness ==
    /\ pc = "gen_call"
    /\ HasBothPlaceholders(prompt_template)
    /\ Present(prompt_template, <<"x">>)
    /\ HasBrace(resume)
    /\ Len(prompt.text) > Len(resume) + Len(job_description)

\* C5: when the template lacks one of the two placeholders, rendering
\* fails, no prompt is produced and the backend is not called.
C5_MissingPlaceholderFails ==
    (FormatDone /\ ~HasBothPlaceholders(prompt_template))
    => /\ render_error # ""
       /\ prompt.isNone
       /\ api_calls = 0

-----------------------------------------------------------------------------
(* Properties of the runs of main *)

\* C3: once missing_sections is non-empty, generate_custom_content has
\* returned None, and main ends without calling fill_pdf_template.
C3_MissingSectionsStopBeforePdf ==
    missing_sections # {} =>
        /\ custom_content.isNone
        /\ pc \in {"main_check", "done"}
        /\ fill_calls = 0
        /\ ~output_written

\* C3's case: a run that found sections missing has ended
C3_Witness ==
    /\ missing_sections # {}
    /\ pc = "done"

\* C6: the backend is called at most once in a run, and after a response
\* with missing sections the run never stands before a second call.
C6_NoRetry ==
    /\ api_calls <= 1
    /\ missing_sections # {} =>
           api_calls = 1 /\ pc \notin {"gen_read_prompt", "gen_format",
                                       "gen_call", "gen_wait"}

\* C6's case: the run ended after one call whose response was malformed
C6_Witness ==
    /\ pc = "done"
    /\ api_calls = 1
    /\ ~backend_error
    /\ \E k \in Sections : k \in missing_sections /\ content[k].isNone

\* C7 as stated: when the backend call fails, the collaborator's failure
\* (the exception) reaches the caller of generate_custom_content, and no
\* PDF is assembled.
C7_BackendErrorPropagates ==
    (backend_error /\ pc # "gen_except")
    => /\ pc = "crashed"
       /\ fill_calls = 0

\* C7, amended: when the backend call fails, generate_custom_content
\* catches the exception and returns None to main, which ends without
\* calling fill_pdf_template.
C7_BackendErrorGivesNone ==
    (backend_error /\ pc # "gen_except")
    => /\ custom_content.isNone
       /\ pc \in {"main_check", "done"}
       /\ fill_calls = 0
       /\ ~output_written

\* C7's case: a run whose backend call failed has ended
C7_Witness ==
    /\ backend_error
    /\ api_calls = 1
    /\ pc = "done"

\* C10: the backend is called, and fill_pdf_template called or an output
\* written, only when setup mode is off and the four required files exist
\* at the check; otherwise the run ends at once.
C10_CallsOnlyAfterFileCheck ==
    /\ (api_calls > 0 \/ fill_calls > 0 \/ output_written)
           => (~setup /\ files = RequiredFiles)
    /\ (setup \/ files # RequiredFiles)
           => (pc \in {"main", "done"} /\ api_calls = 0 /\ fill_calls = 0)

\* C10's case: with the four files and no setup mode the output was written
C10_Witness ==
    /\ pc = "done"
    /\ ~setup
    /\ files = RequiredFiles
    /\ api_calls = 1
    /\ fill_calls = 1
    /\ output_written

=============================================================================
